---- MODULE Spec2Model ----
(***************************************************************************)
(* Model of pyxi (src/pyxi.hpp): the bit-stream transcoder                 *)
(* (BytewiseSerializer / BytewiseDeserializer), the byte sink and source   *)
(* (DynamicSerializer / BufferDeserializer), the primitive policies        *)
(* (integral, Bits, Spare, collections), serialize / deserialize and the   *)
(* align helper.                                                           *)
(*                                                                         *)
(* A size_t word is the set of the positions of its 1 bits (0 = least      *)
(* significant), so that the 64-bit shifts of the code are exact.  A       *)
(* uint8_t is a number 0..255.  A value of an integer type T is the set of *)
(* the positions of the 1 bits of its two's-complement representation.     *)
(***************************************************************************)
EXTENDS Integers, Sequences, FiniteSets, TLC

\* bitsize<size_t>::value on the modelled platform (LP64).
WordBits == 64
\* bitsize<>::value, the bits of one uint8_t.
ByteBits == 8

\* Bounds of the model.
MaxOps == 3
MaxLen == 3
MaxAlign == 4
MaxElems == 3
IndeterminateBytes == {0, 165}

\* ByteOrder
MsbFirst == "MsbFirst"
LsbFirst == "LsbFirst"
ByteOrder == {MsbFirst, LsbFirst}

(***************************************************************************)
(* Integer types and words                                                 *)
(***************************************************************************)
IntType(b, s) == [bits |-> b, signed |-> s]
U8  == IntType(8, FALSE)
I8  == IntType(8, TRUE)
U16 == IntType(16, FALSE)
I16 == IntType(16, TRUE)
U32 == IntType(32, FALSE)
I32 == IntType(32, TRUE)
U64 == IntType(64, FALSE)
I64 == IntType(64, TRUE)
SizeT == U64

\* bitsize<T>::value
bitsize(T) == T.bits

AllOnes == 0 .. (WordBits - 1)
\* data <<= 1, data >>= 1, data <<= n, data >>= n on a size_t (n < WordBits)
Shl1(d) == {i + 1 : i \in {j \in d : j < WordBits - 1}}
Shr1(d) == {i - 1 : i \in {j \in d : j > 0}}
ShlN(d, n) == {i + n : i \in {j \in d : j + n < WordBits}}
ShrN(d, n) == {i - n : i \in {j \in d : j >= n}}
\* ~d
Not(d) == AllOnes \ d

\* The conversion of an argument of type T to the size_t parameter of impl.
ToWord(T, v) ==
    IF T.signed /\ (T.bits - 1) \in v THEN v \cup (T.bits .. (WordBits - 1)) ELSE v
\* static_cast<T>(v) of a size_t v
CastTo(T, w) == w \cap (0 .. (T.bits - 1))

\* F(v), with v computed once before F is applied (TLC would otherwise compute
\* an argument anew at every use of it)
Bind(v, F(_)) == CHOOSE r \in {F(x) : x \in {v}} : TRUE

\* uint8_t helpers: b & m and b | m for a one-bit mask m
ByteTest(b, m) == (b \div m) % 2 = 1
ByteOr(b, m) == IF ByteTest(b, m) THEN b ELSE b + m

(***************************************************************************)
(* Writing values down: bytes to words and back (used by the properties    *)
(* and by the inputs, not by the transcoder).                              *)
(***************************************************************************)
RECURSIVE Pow2(_)
Pow2(n) == IF n = 0 THEN 1 ELSE 2 * Pow2(n - 1)
\* the 1 bits of the number n (n < 2^16)
BitsOfNat(n) == {i \in 0 .. 15 : (n \div Pow2(i)) % 2 = 1}
\* the word whose byte k (0 = least significant) is bs[k + 1]
WordOfBytes(bs) ==
    UNION {{8 * (k - 1) + i : i \in BitsOfNat(bs[k])} : k \in 1 .. Len(bs)}
\* byte k (0 = least significant) of the word w, as a number
BitAt(w, i) == IF i \in w THEN 1 ELSE 0
ByteOfWord(w, k) ==
    BitAt(w, 8 * k) + 2 * BitAt(w, 8 * k + 1) + 4 * BitAt(w, 8 * k + 2)
    + 8 * BitAt(w, 8 * k + 3) + 16 * BitAt(w, 8 * k + 4) + 32 * BitAt(w, 8 * k + 5)
    + 64 * BitAt(w, 8 * k + 6) + 128 * BitAt(w, 8 * k + 7)

(***************************************************************************)
(* State                                                                   *)
(***************************************************************************)
VARIABLES
    byteOrder,  \* the ByteOrder given to the serializer and the deserializer
    ser,        \* DynamicSerializer: byte_, bitsSet_, bytes
    des,        \* BufferDeserializer: byte_, bitsLeft_, ptr (index of the next
                \* byte of the input, 1-based), size_
    buf,        \* the bytes [pData, pData + size) the deserializer reads
    pc,         \* "encode", "decode", "done" or "failed"
    log,        \* the calls made on the serializer, in order
    taken,      \* the calls made on the deserializer, in order
    vec,        \* the containers of the collection policies and of align
    ty          \* the type a template is instantiated with, and what the
                \* instantiation has found of it so far

vars == <<byteOrder, ser, des, buf, pc, log, taken, vec, ty>>

\* no template under instantiation
NoType == [kind |-> "none"]

(***************************************************************************)
(* DynamicSerializer / BytewiseSerializer                                  *)
(***************************************************************************)
\* BytewiseSerializer::BytewiseSerializer, DynamicSerializer::DynamicSerializer
NewSerializer == [byte_ |-> 0, bitsSet_ |-> 0, bytes |-> <<>>]

\* DynamicSerializer::putByte
putByte(s, byte) == [s EXCEPT !.bytes = Append(@, byte)]

\* flush without the reset of the accumulator
flushNoReset(s) == IF s.bitsSet_ # 0 THEN putByte(s, s.byte_) ELSE s

\* BytewiseSerializer::flush
flush(s) ==
    IF s.bitsSet_ # 0
    THEN [putByte(s, s.byte_) EXCEPT !.byte_ = 0, !.bitsSet_ = 0]
    ELSE s

\* the byte masks of the two orders exchanged
SerByteMaskSwapped(order) == IF order = MsbFirst THEN 128 ELSE 1

\* byteMask and dataMask of BytewiseSerializer::impl (dataMask as the position
\* of its one bit)
SerByteMask(order) == IF order = MsbFirst THEN 1 ELSE 128
SerDataMask(order) == IF order = MsbFirst THEN WordBits - 1 ELSE 0

\* one turn of the while (bits--) loop of BytewiseSerializer::impl, on the
\* serializer st.s and the local st.data
SerStep(order, st) ==
    LET s == st.s
        b1 == IF SerDataMask(order) \in st.data
              THEN ByteOr(s.byte_, SerByteMask(order)) ELSE s.byte_
        n1 == (s.bitsSet_ + 1) % 256
        s1 == IF n1 = ByteBits
              THEN [putByte(s, b1) EXCEPT !.byte_ = 0, !.bitsSet_ = 0]
              ELSE [s EXCEPT !.byte_ = b1, !.bitsSet_ = n1]
    IN  [s |-> [s1 EXCEPT !.byte_ = IF order = MsbFirst THEN (@ * 2) % 256
                                    ELSE @ \div 2],
         data |-> IF order = MsbFirst THEN Shl1(st.data) ELSE Shr1(st.data)]

\* bits turns of the loop, one after the other (the first half of the turns,
\* then the rest, which keeps the evaluation shallow)
RECURSIVE SerLoop(_, _, _)
SerLoop(order, st, bits) ==
    IF bits = 0 THEN st
    ELSE IF bits = 1 THEN SerStep(order, st)
    ELSE Bind(SerLoop(order, st, bits \div 2),
              LAMBDA m : SerLoop(order, m, bits - (bits \div 2)))

\* impl without the shift that brings the top requested bit to the top of the
\* word under MsbFirst
SerImplNoAlign(order, s, data, bits) ==
    SerLoop(order, [s |-> s, data |-> data], bits).s

\* BytewiseSerializer::impl(size_t data, size_t bits), 1 <= bits <= WordBits
SerImpl(order, s, data, bits) ==
    SerLoop(order,
            [s |-> s,
             data |-> IF order = MsbFirst THEN ShlN(data, WordBits - bits) ELSE data],
            bits).s

\* give that clamps the width to that of T instead of refusing it
giveClamped(order, s, T, data, bits) ==
    IF bitsize(T) > WordBits THEN [s |-> s, err |-> "invalid_argument"]
    ELSE IF bits = 0 THEN [s |-> s, err |-> "invalid_argument"]
    ELSE [s |-> SerImpl(order, s, ToWord(T, data),
                        IF bits > bitsize(T) THEN bitsize(T) ELSE bits),
          err |-> "none"]

\* Serializer::give<T>(data, bits): the serializer after the call and the error
give(order, s, T, data, bits) ==
    IF bits > bitsize(T) THEN [s |-> s, err |-> "invalid_argument"]
    ELSE IF bitsize(T) > WordBits THEN [s |-> s, err |-> "invalid_argument"]
    ELSE IF bits = 0 THEN [s |-> s, err |-> "invalid_argument"]
    ELSE [s |-> SerImpl(order, s, ToWord(T, data), bits), err |-> "none"]

(***************************************************************************)
(* BufferDeserializer / BytewiseDeserializer                               *)
(***************************************************************************)
\* BufferDeserializer::BufferDeserializer(pData, size, byteOrder); byte_ of
\* BytewiseDeserializer has no initializer: b is whatever the storage holds
NewDeserializer(size, b) == [byte_ |-> b, bitsLeft_ |-> 0, ptr |-> 1, size_ |-> size]

\* the byte at index p of the input; outside the input the read returns
\* whatever lies there (only an unchecked read gets that far)
ReadMem(mem, p) == IF p \in 1 .. Len(mem) THEN mem[p] ELSE 0

\* getByte without the test of size_
getByteUnchecked(d, mem) ==
    [d |-> [d EXCEPT !.size_ = @ - 1, !.ptr = @ + 1],
     byte |-> ReadMem(mem, d.ptr), err |-> "none"]

\* BufferDeserializer::getByte
getByte(d, mem) ==
    IF d.size_ = 0
    THEN [d |-> d, byte |-> 0, err |-> "out_of_range"]
    ELSE [d |-> [d EXCEPT !.size_ = @ - 1, !.ptr = @ + 1],
          byte |-> ReadMem(mem, d.ptr), err |-> "none"]

\* byteMask and dataMask of BytewiseDeserializer::impl
DesByteMask(order) == IF order = LsbFirst THEN 1 ELSE 128
DesDataMask(order) == IF order = LsbFirst THEN WordBits - 1 ELSE 0

\* one turn of the for loop of BytewiseDeserializer::impl; r holds the
\* deserializer d, the locals data and signMask, and err
DesStep(order, r, mem) ==
    LET lsb == order = LsbFirst
        b1 == IF lsb THEN r.d.byte_ \div 2 ELSE (r.d.byte_ * 2) % 256
        data1 == IF lsb THEN Shr1(r.data) ELSE Shl1(r.data)
        mask1 == IF lsb THEN Shr1(r.signMask) ELSE Shl1(r.signMask)
        fetch == r.d.bitsLeft_ = 0
        \* bitsLeft_-- on a uint8_t, done before getByte is called
        d1 == [r.d EXCEPT !.byte_ = b1, !.bitsLeft_ = (@ - 1) % 256]
        g == getByte(d1, mem)
        d2 == IF ~fetch THEN d1
              ELSE IF g.err # "none" THEN g.d
              ELSE [g.d EXCEPT !.byte_ = g.byte, !.bitsLeft_ = ByteBits - 1]
        err2 == IF fetch THEN g.err ELSE "none"
        data2 == IF err2 = "none" /\ ByteTest(d2.byte_, DesByteMask(order))
                 THEN data1 \cup {DesDataMask(order)} ELSE data1
    IN  [d |-> d2, data |-> data2, signMask |-> mask1, err |-> err2]

\* i turns of the loop, one after the other, up to the first that throws
\* (the first half of the turns, then the rest)
RECURSIVE DesLoop(_, _, _, _)
DesLoop(order, r, mem, i) ==
    IF i = 0 \/ r.err # "none" THEN r
    ELSE IF i = 1 THEN DesStep(order, r, mem)
    ELSE Bind(DesLoop(order, r, mem, i \div 2),
              LAMBDA m : DesLoop(order, m, mem, i - (i \div 2)))

\* the sign mask after the loop of BytewiseDeserializer::impl
DesSignMask(order, signMask) == IF order = LsbFirst THEN Not(signMask) ELSE signMask

\* BytewiseDeserializer::impl(size_t& data, size_t bits, bool signExtend),
\* data being 0 on entry
DesImpl(order, d, mem, bits, signExtend) ==
    Bind(DesLoop(order, [d |-> d, data |-> {}, signMask |-> AllOnes, err |-> "none"],
                 mem, bits),
         LAMBDA r :
            LET data1 == IF order = LsbFirst
                         THEN ShrN(r.data, WordBits - bits) ELSE r.data
                data2 == IF signExtend
                         THEN data1 \cup DesSignMask(order, r.signMask) ELSE data1
            IN  IF r.err # "none" THEN [d |-> r.d, data |-> {}, err |-> r.err]
                ELSE [d |-> r.d, data |-> data2, err |-> "none"])

\* Deserializer::take<T>(bits): the deserializer after the call, the value
\* returned and the error
take(order, d, mem, T, bits) ==
    IF bits > bitsize(T) THEN [d |-> d, value |-> {}, err |-> "invalid_argument"]
    ELSE IF bitsize(T) > WordBits THEN [d |-> d, value |-> {}, err |-> "invalid_argument"]
    ELSE IF bits = 0 THEN [d |-> d, value |-> {}, err |-> "invalid_argument"]
    ELSE Bind(DesImpl(order, d, mem, bits, T.signed),
              LAMBDA r : [d |-> r.d, value |-> CastTo(T, r.data), err |-> r.err])

(***************************************************************************)
(* Primitive policies.  A field is [kind, T, width, value]: an integer of  *)
(* type T ("int"), a Bits<T, width> ("bits") or a Spare<width> ("spare").  *)
(***************************************************************************)
Integral(T, v) == [kind |-> "int", T |-> T, width |-> bitsize(T), value |-> v]
Bits(T, w, v) == [kind |-> "bits", T |-> T, width |-> w, value |-> v]
Spare(w) == [kind |-> "spare", T |-> SizeT, width |-> w, value |-> {}]

\* Policy<T, is_integral>::serialize / deserialize
PolicyIntegralSerialize(order, s, f) == give(order, s, f.T, f.value, bitsize(f.T))
PolicyIntegralDeserialize(order, d, mem, f) == take(order, d, mem, f.T, bitsize(f.T))
\* Policy<Bits<T, Width>>::serialize / deserialize
PolicyBitsSerialize(order, s, f) == give(order, s, f.T, f.value, f.width)
PolicyBitsDeserialize(order, d, mem, f) == take(order, d, mem, f.T, f.width)
\* Policy<Spare<Width>>::serialize / deserialize (the bits taken are dropped)
PolicySpareSerialize(order, s, f) == give(order, s, SizeT, {}, f.width)
PolicySpareDeserialize(order, d, mem, f) ==
    [take(order, d, mem, SizeT, f.width) EXCEPT !.value = {}]

\* Serializer::put and Deserializer::get: the policy of the field's type
put(order, s, f) ==
    CASE f.kind = "int" -> PolicyIntegralSerialize(order, s, f)
      [] f.kind = "bits" -> PolicyBitsSerialize(order, s, f)
      [] f.kind = "spare" -> PolicySpareSerialize(order, s, f)
get(order, d, mem, f) ==
    CASE f.kind = "int" -> PolicyIntegralDeserialize(order, d, mem, f)
      [] f.kind = "bits" -> PolicyBitsDeserialize(order, d, mem, f)
      [] f.kind = "spare" -> PolicySpareDeserialize(order, d, mem, f)

(***************************************************************************)
(* The stream machine: fields are put and the stream flushed on one        *)
(* DynamicSerializer; then a BufferDeserializer is built over the bytes    *)
(* produced and the same fields are got back in the same order.            *)
(***************************************************************************)
\* The fields offered to put.
FieldMenu ==
    { Bits(U8, 2, BitsOfNat(1)), Bits(U8, 2, BitsOfNat(2)),
      Bits(U8, 4, BitsOfNat(15)), Bits(U8, 3, BitsOfNat(255)),
      Bits(U16, 12, BitsOfNat(2748)),
      Bits(I8, 5, BitsOfNat(16)), Bits(I8, 5, BitsOfNat(5)),
      Spare(4) }

NoField == [kind |-> "none", T |-> U8, width |-> 0, value |-> {}]
LogEntry(op, f, pre, post) == [op |-> op, f |-> f, pre |-> pre, post |-> post]

\* the fields put so far, in order
PutFields(l) == SelectSeq(l, LAMBDA e : e.op = "put")
RECURSIVE SumWidth(_)
SumWidth(fs) == IF fs = <<>> THEN 0 ELSE fs[1].f.width + SumWidth(Tail(fs))
\* the bits given so far
TotalBits(l) == SumWidth(PutFields(l))

Init ==
    /\ byteOrder \in ByteOrder
    /\ ser = NewSerializer
    /\ des = NewDeserializer(0, 0)
    /\ buf = <<>>
    /\ pc = "encode"
    /\ log = <<>>
    /\ taken = <<>>
    /\ ty = NoType
    /\ vec = <<>>

\* ser << f for a field of the menu
Put ==
    /\ pc = "encode"
    /\ Len(log) < MaxOps
    /\ \E f \in FieldMenu : \E r \in {put(byteOrder, ser, f)} :
            /\ r.err = "none"
            /\ ser' = r.s
            /\ log' = Append(log, LogEntry("put", f, ser, r.s))
    /\ UNCHANGED <<byteOrder, des, buf, pc, taken, vec, ty>>

\* ser.flush()
Flush ==
    /\ pc = "encode"
    /\ Len(log) < MaxOps
    /\ \E s1 \in {flush(ser)} :
            /\ ser' = s1
            /\ log' = Append(log, LogEntry("flush", NoField, ser, s1))
    /\ UNCHANGED <<byteOrder, des, buf, pc, taken, vec, ty>>

\* BufferDeserializer des(data.data(), data.size(), byteOrder) over the
\* bytes produced so far
BeginDeserialize ==
    /\ pc = "encode"
    /\ \E b \in IndeterminateBytes :
        /\ buf' = ser.bytes
        /\ des' = NewDeserializer(Len(ser.bytes), b)
    /\ pc' = "decode"
    /\ UNCHANGED <<byteOrder, ser, log, taken, vec, ty>>

\* des >> f for the next field, in the order the fields were put; the
\* exception of a failed take ends the deserialization
Get ==
    /\ pc = "decode"
    /\ Len(taken) < Len(PutFields(log))
    /\ \E f \in {PutFields(log)[Len(taken) + 1].f} :
         \E r \in {get(byteOrder, des, buf, f)} :
            /\ des' = r.d
            /\ taken' = Append(taken, [f |-> f, value |-> r.value, err |-> r.err,
                                       start |-> SumWidth(taken)])
            /\ pc' = IF r.err = "none" THEN "decode" ELSE "failed"
    /\ UNCHANGED <<byteOrder, ser, buf, log, vec, ty>>

Next == Put \/ Flush \/ BeginDeserialize \/ Get

Spec == Init /\ [][Next]_vars

(***************************************************************************)
(* serialize(t, byteOrder) and deserialize<T>(pData, size, byteOrder) of   *)
(* one value, as whole calls.                                              *)
(***************************************************************************)
\* The values offered to serialize: integers of every width, signed and
\* unsigned, and two bit-fields.
ValueMenu ==
    { Integral(U8, BitsOfNat(18)), Integral(U8, BitsOfNat(251)),
      Integral(I8, BitsOfNat(5)), Integral(I8, BitsOfNat(251)),
      Integral(U16, BitsOfNat(4660)), Integral(U16, BitsOfNat(32769)),
      Integral(I16, BitsOfNat(4660)), Integral(I16, BitsOfNat(65534)),
      Integral(U32, WordOfBytes(<<120, 86, 52, 18>>)),
      Integral(U32, WordOfBytes(<<1, 0, 0, 128>>)),
      Integral(I32, WordOfBytes(<<120, 86, 52, 18>>)),
      Integral(I32, WordOfBytes(<<249, 255, 255, 255>>)),
      Integral(U64, WordOfBytes(<<239, 205, 171, 137, 103, 69, 35, 1>>)),
      Integral(U64, WordOfBytes(<<1, 0, 0, 0, 0, 0, 0, 128>>)),
      Integral(I64, BitsOfNat(5)),
      Integral(I64, WordOfBytes(<<239, 205, 171, 137, 103, 69, 35, 1>>)),
      Integral(I64, WordOfBytes(<<254, 255, 255, 255, 255, 255, 255, 255>>)),
      Bits(U8, 4, BitsOfNat(15)), Bits(U16, 12, BitsOfNat(2748)) }

\* serialize(t, byteOrder): DynamicSerializer ser(byteOrder); ser << t;
\* ser.flush(); return ser.data()
serialize(order, f) == flush(put(order, NewSerializer, f).s)

\* deserialize<T>(pData, size, byteOrder): T t{}; BufferDeserializer
\* des(pData, size, byteOrder); des >> t; return t
deserialize(order, mem, b, f) == get(order, NewDeserializer(Len(mem), b), mem, f)

SerializeValue ==
    /\ pc = "encode"
    /\ \E f \in ValueMenu : \E r \in {put(byteOrder, NewSerializer, f)} :
            /\ ser' = serialize(byteOrder, f)
            /\ log' = <<LogEntry("put", f, NewSerializer, r.s),
                        LogEntry("flush", NoField, r.s, flush(r.s))>>
    /\ pc' = "serialized"
    /\ UNCHANGED <<byteOrder, des, buf, taken, vec, ty>>

\* the caller passes the first size bytes of the bytes serialize returned
DeserializeValue ==
    /\ pc = "serialized"
    /\ \E size \in 0 .. Len(ser.bytes), b \in IndeterminateBytes :
         \E mem \in {SubSeq(ser.bytes, 1, size)} :
         \E r \in {deserialize(byteOrder, mem, b, log[1].f)} :
            /\ buf' = mem
            /\ des' = r.d
            /\ taken' = <<[f |-> log[1].f, value |-> r.value, err |-> r.err,
                           start |-> 0]>>
            /\ pc' = IF r.err = "none" THEN "decode" ELSE "failed"
    /\ UNCHANGED <<byteOrder, ser, log, vec, ty>>

NextValue == SerializeValue \/ DeserializeValue

SpecValue == Init /\ [][NextValue]_vars

(***************************************************************************)
(* align                                                                   *)
(***************************************************************************)
\* the for loop of align: data.size() is read again at every test
RECURSIVE alignLoop(_, _, _)
alignLoop(data, alignment, i) ==
    IF i < alignment - (Len(data) % alignment)
    THEN alignLoop(Append(data, 0), alignment, i + 1)
    ELSE data

\* void align(std::vector<uint8_t>& data, size_t alignment): data afterwards
alignInPlace(data, alignment) ==
    IF Len(data) % alignment # 0 THEN alignLoop(data, alignment, 0) ELSE data

\* std::vector<uint8_t> align(std::vector<uint8_t>&& data, size_t alignment)
alignCopy(data, alignment) ==
    IF Len(data) % alignment # 0 THEN alignLoop(data, alignment, 0) ELSE data

\* the byte sequences of at most n bytes over the bytes S
BoundedSeq(S, n) == UNION {[1 .. k -> S] : k \in 0 .. n}
AlignBytes == {0, 7}

InitAlign ==
    /\ byteOrder = MsbFirst
    /\ ser = NewSerializer
    /\ des = NewDeserializer(0, 0)
    /\ buf = <<>>
    /\ pc = "align"
    /\ log = <<>>
    /\ taken = <<>>
    /\ ty = NoType
    /\ \E data \in BoundedSeq(AlignBytes, MaxLen), alignment \in 1 .. MaxAlign :
          vec = [data |-> data, alignment |-> alignment, form |-> "none", out |-> <<>>]

AlignInPlace ==
    /\ pc = "align"
    /\ vec.form = "none"
    /\ vec' = [vec EXCEPT !.form = "in place", !.out = alignInPlace(vec.data, vec.alignment)]
    /\ UNCHANGED <<byteOrder, ser, des, buf, pc, log, taken, ty>>

AlignCopy ==
    /\ pc = "align"
    /\ vec.form = "none"
    /\ vec' = [vec EXCEPT !.form = "copy", !.out = alignCopy(vec.data, vec.alignment)]
    /\ UNCHANGED <<byteOrder, ser, des, buf, pc, log, taken, ty>>

NextAlign == AlignInPlace \/ AlignCopy

SpecAlign == InitAlign /\ [][NextAlign]_vars

(***************************************************************************)
(* Collection policies: std::vector<T> (resizable) and std::array<T, N>    *)
(* (fixed arity) of integers.                                              *)
(***************************************************************************)
\* the number a size_t holds, or -1 when it is beyond any container
NatOfWord(w) ==
    IF w \subseteq 0 .. 15 THEN ByteOfWord(w, 0) + 256 * ByteOfWord(w, 1) ELSE -1

\* t.resize(n): the first n elements of t, lengthened with value-initialized
\* elements
resize(t, n) == [k \in 1 .. n |-> IF k <= Len(t) THEN t[k] ELSE {}]

\* for (auto it = t.begin(); it != t.end(); ++it) ser.put(*it)
RECURSIVE putEach(_, _, _, _)
putEach(order, s, T, t) ==
    IF t = <<>> THEN s
    ELSE Bind(put(order, s, Integral(T, t[1])).s,
              LAMBDA s1 : putEach(order, s1, T, Tail(t)))

\* for (auto it = t.begin(); it != t.end(); ++it) des.get(*it), from element
\* k on; r holds the deserializer d, the container t and err
RECURSIVE getEach(_, _, _, _, _)
getEach(order, r, mem, T, k) ==
    IF k > Len(r.t) \/ r.err # "none" THEN r
    ELSE Bind(get(order, r.d, mem, Integral(T, {})),
              LAMBDA g :
                 Bind([d |-> g.d, err |-> g.err,
                       t |-> IF g.err = "none" THEN [r.t EXCEPT ![k] = g.value] ELSE r.t],
                      LAMBDA r1 : getEach(order, r1, mem, T, k + 1)))

\* Policy<T, is_resizable && is_iterable>::serialize
PolicyResizableSerialize(order, s, T, t) ==
    Bind(put(order, s, Integral(SizeT, BitsOfNat(Len(t)))).s,
         LAMBDA s1 : putEach(order, s1, T, t))

\* Policy<T, is_resizable && is_iterable>::deserialize; a size no vector can
\* have makes resize throw
PolicyResizableDeserialize(order, d, mem, T, t) ==
    Bind(get(order, d, mem, Integral(SizeT, {})),
         LAMBDA g :
            IF g.err # "none" THEN [d |-> g.d, t |-> t, err |-> g.err]
            ELSE IF NatOfWord(g.value) < 0 THEN [d |-> g.d, t |-> t, err |-> "length_error"]
            ELSE Bind([d |-> g.d, t |-> resize(t, NatOfWord(g.value)), err |-> "none"],
                      LAMBDA r : getEach(order, r, mem, T, 1)))

\* Policy<T, !is_resizable && is_iterable>::serialize / deserialize
PolicyFixedSerialize(order, s, T, t) == putEach(order, s, T, t)
PolicyFixedDeserialize(order, d, mem, T, t) ==
    Bind([d |-> d, t |-> t, err |-> "none"], LAMBDA r : getEach(order, r, mem, T, 1))

\* The element types and values of the containers.
ElemTypes == {U8, I16, I64}
ElemValues(T) ==
    IF T = U8 THEN {BitsOfNat(1), BitsOfNat(251)}
    ELSE IF T = I16 THEN {BitsOfNat(65534)}
    ELSE {BitsOfNat(5)}
\* what the target holds before deserialize
Filler == BitsOfNat(9)

InitContainer ==
    /\ byteOrder \in ByteOrder
    /\ ser = NewSerializer
    /\ des = NewDeserializer(0, 0)
    /\ buf = <<>>
    /\ pc = "encode"
    /\ log = <<>>
    /\ taken = <<>>
    /\ ty = NoType
    /\ \E T \in ElemTypes :
         \E src \in BoundedSeq(ElemValues(T), MaxElems) :
            \/ \E prior \in 0 .. MaxElems :
                  vec = [kind |-> "vector", T |-> T, src |-> src,
                         target |-> [k \in 1 .. prior |-> Filler], err |-> "none"]
            \/ vec = [kind |-> "array", T |-> T, src |-> src,
                      target |-> [k \in 1 .. Len(src) |-> Filler], err |-> "none"]

\* serialize(t, byteOrder) of a std::vector<T>
SerializeVector ==
    /\ pc = "encode"
    /\ vec.kind = "vector"
    /\ ser' = flush(PolicyResizableSerialize(byteOrder, NewSerializer, vec.T, vec.src))
    /\ pc' = "serialized"
    /\ UNCHANGED <<byteOrder, des, buf, log, taken, vec, ty>>

\* deserialize(t, data, byteOrder) into a std::vector<T> of any length
DeserializeVector ==
    /\ pc = "serialized"
    /\ vec.kind = "vector"
    /\ \E b \in IndeterminateBytes :
         \E r \in {PolicyResizableDeserialize(byteOrder,
                       NewDeserializer(Len(ser.bytes), b), ser.bytes, vec.T, vec.target)} :
            /\ des' = r.d
            /\ vec' = [vec EXCEPT !.target = r.t, !.err = r.err]
            /\ pc' = IF r.err = "none" THEN "decode" ELSE "failed"
    /\ buf' = ser.bytes
    /\ UNCHANGED <<byteOrder, ser, log, taken, ty>>

\* serialize(t, byteOrder) of a std::array<T, N>
SerializeArray ==
    /\ pc = "encode"
    /\ vec.kind = "array"
    /\ ser' = flush(PolicyFixedSerialize(byteOrder, NewSerializer, vec.T, vec.src))
    /\ pc' = "serialized"
    /\ UNCHANGED <<byteOrder, des, buf, log, taken, vec, ty>>

\* deserialize(t, data, byteOrder) into a std::array<T, N>
DeserializeArray ==
    /\ pc = "serialized"
    /\ vec.kind = "array"
    /\ \E b \in IndeterminateBytes :
         \E r \in {PolicyFixedDeserialize(byteOrder,
                       NewDeserializer(Len(ser.bytes), b), ser.bytes, vec.T, vec.target)} :
            /\ des' = r.d
            /\ vec' = [vec EXCEPT !.target = r.t, !.err = r.err]
            /\ pc' = IF r.err = "none" THEN "decode" ELSE "failed"
    /\ buf' = ser.bytes
    /\ UNCHANGED <<byteOrder, ser, log, taken, ty>>

NextContainer ==
    SerializeVector \/ DeserializeVector \/ SerializeArray \/ DeserializeArray

SpecContainer == InitContainer /\ [][NextContainer]_vars

(***************************************************************************)
(* What the properties are stated in: the bit stream a byte sequence       *)
(* stands for, independently of the transcoder.                            *)
(***************************************************************************)
\* bit k (counted from 0) of the stream held in the bytes mem: bit k mod 8
\* of byte k div 8 under LsbFirst, bit 7 - k mod 8 under MsbFirst
StreamBit(order, mem, k) ==
    LET byte == mem[(k \div 8) + 1]
        pos == IF order = LsbFirst THEN k % 8 ELSE 7 - (k % 8)
    IN  IF ByteTest(byte, Pow2(pos)) THEN 1 ELSE 0

\* the bit of the w-bit field value v that is the j-th to enter the stream:
\* least significant first under LsbFirst, most significant first under
\* MsbFirst
FieldBit(order, v, w, j) ==
    IF (IF order = LsbFirst THEN j ELSE w - 1 - j) \in v THEN 1 ELSE 0

\* the w bits of the stream mem from bit start on, as a field value
Transferred(order, mem, start, w) ==
    {i \in 0 .. (w - 1) :
        StreamBit(order, mem, start + (IF order = LsbFirst THEN i ELSE w - 1 - i)) = 1}

LowBits(v, w) == v \cap (0 .. (w - 1))

\* the bit offset at which the i-th field put starts
StartOf(fs, i) == SumWidth(SubSeq(fs, 1, i - 1))

\* the log is some puts followed by at least one flush, as serialize does
PutsThenFlush(l) ==
    \E k \in 0 .. (Len(l) - 1) :
        /\ \A i \in 1 .. k : l[i].op = "put"
        /\ \A i \in (k + 1) .. Len(l) : l[i].op = "flush"
NoFlush(l) == \A i \in 1 .. Len(l) : l[i].op = "put"

\* the whole byte sequence produced was given to the deserializer
WholeInput == pc \in {"decode", "failed"} /\ buf = ser.bytes

(***************************************************************************)
(* C1  Round trip of bit-fields and padding at stream level: fields with   *)
(* unsigned backing types and any widths (the total need not be a multiple *)
(* of 8) that are serialized in order and flushed come back, from the      *)
(* bytes produced and in the same byte order, as the low width bits of the *)
(* values written.                                                         *)
(***************************************************************************)
RoundTripBitFields ==
    (/\ WholeInput
     /\ PutsThenFlush(log)
     /\ \A i \in 1 .. Len(log) : ~log[i].f.T.signed)
    => \A i \in 1 .. Len(taken) :
          /\ taken[i].err = "none"
          /\ taken[i].f.kind = "bits"
                => taken[i].value = LowBits(taken[i].f.value, taken[i].f.width)

(***************************************************************************)
(* C2  Round trip of plain integers: deserialize<T>(serialize(v, order),   *)
(* order) = v for every integer type of 8, 16, 32 or word width, signed or *)
(* unsigned, and both byte orders.                                         *)
(***************************************************************************)
RoundTripIntegers ==
    WholeInput
    => \A i \in 1 .. Len(taken) :
          taken[i].f.kind = "int"
             => taken[i].err = "none" /\ taken[i].value = taken[i].f.value

(***************************************************************************)
(* C3  Sign extension of negative sub-width fields: taking w bits          *)
(* (1 <= w < bit width of the signed type T) whose top transferred bit is  *)
(* 1 returns those w bits with every bit of T above position w - 1 set.    *)
(***************************************************************************)
SignExtendNegative ==
    \A i \in 1 .. Len(taken) :
        LET e == taken[i]
            w == e.f.width
            bits == Transferred(byteOrder, buf, e.start, w)
        IN  (/\ e.err = "none"
             /\ e.f.kind = "bits"
             /\ e.f.T.signed
             /\ w < bitsize(e.f.T)
             /\ (w - 1) \in bits)
            => e.value = bits \cup (w .. (bitsize(e.f.T) - 1))

(***************************************************************************)
(* C4  No sign extension when the top transferred bit is 0: taking w bits  *)
(* (1 <= w < bit width of the signed type T) whose top transferred bit is  *)
(* 0 returns exactly those w bits, every bit above position w - 1 being 0. *)
(***************************************************************************)
NoSignExtendNonNegative ==
    \A i \in 1 .. Len(taken) :
        LET e == taken[i]
            w == e.f.width
            bits == Transferred(byteOrder, buf, e.start, w)
        IN  (/\ e.err = "none"
             /\ e.f.kind = "bits"
             /\ e.f.T.signed
             /\ w < bitsize(e.f.T)
             /\ (w - 1) \notin bits)
            => e.value = bits

(***************************************************************************)
(* C5  Buffer exhaustion on a fresh decode: deserializing a type of        *)
(* encoded size n bytes from fewer than n bytes fails with out_of_range    *)
(* (and from n bytes it does not fail); the remaining-length counter never *)
(* goes below 0 and the read cursor never passes the end of the input.     *)
(***************************************************************************)
BufferExhaustion ==
    /\ des.size_ >= 0
    /\ des.ptr - 1 <= Len(buf)
    /\ \A i \in 1 .. Len(taken) :
          /\ taken[i].err \in {"none", "out_of_range"}
          /\ taken[i].err = "out_of_range" <=> 8 * Len(buf) < taken[i].f.width

\* a 4-byte integer was deserialized from 3 bytes and the call failed
BufferExhaustionWitness ==
    /\ pc = "failed"
    /\ Len(buf) = 3
    /\ Len(taken) = 1
    /\ taken[1].f.T = U32
    /\ taken[1].err = "out_of_range"
    /\ des.ptr = 4

(***************************************************************************)
(* C7  Bit placement inside bytes: when the fields written sum to a        *)
(* multiple of 8 bits, bit k of the stream is in byte k div 8, at position *)
(* k mod 8 under LsbFirst (fields least significant bit first) and at      *)
(* position 7 - k mod 8 under MsbFirst (fields most significant bit        *)
(* first).  A 4-bit padding and the 2-bit fields 1 and 2 written LsbFirst  *)
(* give the one byte 0b10010000.                                           *)
(***************************************************************************)
BitPlacement ==
    LET fs == PutFields(log)
    IN  /\ (pc = "encode" /\ NoFlush(log) /\ TotalBits(log) % 8 = 0)
           => /\ Len(ser.bytes) * 8 = TotalBits(log)
              /\ \A i \in 1 .. Len(fs) : \A j \in 0 .. (fs[i].f.width - 1) :
                    StreamBit(byteOrder, ser.bytes, StartOf(fs, i) + j)
                       = FieldBit(byteOrder, fs[i].f.value, fs[i].f.width, j)
        /\ (/\ byteOrder = LsbFirst
            /\ Len(log) = 3
            /\ log[1].f = Spare(4)
            /\ log[2].f = Bits(U8, 2, BitsOfNat(1))
            /\ log[3].f = Bits(U8, 2, BitsOfNat(2)))
           => ser.bytes = <<144>>

\* the padding and the two 2-bit fields were written LsbFirst, a 12-bit field
\* apart from that having crossed a byte boundary in other runs
BitPlacementWitness ==
    /\ byteOrder = LsbFirst
    /\ pc = "encode"
    /\ Len(log) = 3
    /\ log[1].f = Spare(4)
    /\ log[2].f = Bits(U8, 2, BitsOfNat(1))
    /\ log[3].f = Bits(U8, 2, BitsOfNat(2))
    /\ ser.bytes = <<144>>

(***************************************************************************)
(* C8  Byte order of whole-byte integers: an unsigned integer of n bytes   *)
(* is serialized most significant byte first under MsbFirst and least      *)
(* significant byte first under LsbFirst; deserializing b_0 .. b_(n-1)     *)
(* gives the value with b_0 as most significant byte under MsbFirst and as *)
(* least significant byte under LsbFirst; one byte is the same either way. *)
(***************************************************************************)
\* the n bytes of the value v in the order they are to appear in the stream
BytesInOrder(order, v, n) ==
    [k \in 1 .. n |-> ByteOfWord(v, IF order = MsbFirst THEN n - k ELSE k - 1)]
\* the value whose bytes, in stream order, are bs
ValueOfBytes(order, bs) ==
    WordOfBytes([k \in 1 .. Len(bs) |->
                    bs[IF order = MsbFirst THEN Len(bs) + 1 - k ELSE k]])

ByteOrderWholeBytes ==
    /\ \A i \in 1 .. Len(log) :
          (log[i].op = "put" /\ log[i].f.kind = "int" /\ ~log[i].f.T.signed
             /\ log[i].pre = NewSerializer)
          => /\ log[i].post.bytes
                  = BytesInOrder(byteOrder, log[i].f.value, log[i].f.width \div 8)
             /\ log[i].post.bitsSet_ = 0
    /\ \A i \in 1 .. Len(taken) :
          (taken[i].f.kind = "int" /\ ~taken[i].f.T.signed /\ taken[i].err = "none")
          => taken[i].value = ValueOfBytes(byteOrder, buf)

\* 0x12345678 was serialized MsbFirst as 12 34 56 78 and read back
ByteOrderWholeBytesWitness ==
    /\ byteOrder = MsbFirst
    /\ pc = "decode"
    /\ buf = <<18, 52, 86, 120>>
    /\ Len(taken) = 1
    /\ taken[1].f = Integral(U32, WordOfBytes(<<120, 86, 52, 18>>))
    /\ taken[1].value = WordOfBytes(<<120, 86, 52, 18>>)

(***************************************************************************)
(* C9  Idempotent flush: a flush with a partially filled byte emits        *)
(* exactly one byte and empties the accumulator (no pending bits,          *)
(* accumulator 0); a flush with no pending bits, so any flush right after  *)
(* a flush, emits nothing and changes nothing.  Hence fields of S bits     *)
(* followed by flush give exactly ceil(S / 8) bytes.                       *)
(***************************************************************************)
IdempotentFlush ==
    /\ \A i \in 1 .. Len(log) :
          log[i].op = "flush"
          => /\ log[i].pre.bitsSet_ # 0
                  => /\ Len(log[i].post.bytes) = Len(log[i].pre.bytes) + 1
                     /\ SubSeq(log[i].post.bytes, 1, Len(log[i].pre.bytes))
                           = log[i].pre.bytes
                     /\ log[i].post.bitsSet_ = 0
                     /\ log[i].post.byte_ = 0
             /\ log[i].pre.bitsSet_ = 0 => log[i].post = log[i].pre
             /\ (i > 1 /\ log[i - 1].op = "flush") => log[i].post = log[i].pre
    /\ \A i \in 1 .. Len(log) :
          log[i].op = "put" => log[i].post.bitsSet_ = (log[i].pre.bitsSet_ + log[i].f.width) % 8
    /\ PutsThenFlush(log) => Len(ser.bytes) = (TotalBits(log) + 7) \div 8

\* a flush of a partial byte was followed at once by a second flush
IdempotentFlushWitness ==
    /\ Len(log) = 3
    /\ log[1].op = "put"
    /\ log[2].op = "flush"
    /\ log[2].pre.bitsSet_ # 0
    /\ log[3].op = "flush"
    /\ Len(ser.bytes) = 1

(***************************************************************************)
(* C6  Alignment helper: align(d, A), in place or returning a copy, gives  *)
(* d followed by zero bytes only, of a length that is the smallest         *)
(* multiple of A not less than the length of d; a d whose length is a      *)
(* multiple of A already comes back unchanged.                             *)
(***************************************************************************)
AlignPads ==
    (pc = "align" /\ vec.form # "none")
    => LET n == Len(vec.data)
           A == vec.alignment
       IN  /\ Len(vec.out) % A = 0
           /\ Len(vec.out) = ((n + A - 1) \div A) * A
           /\ SubSeq(vec.out, 1, n) = vec.data
           /\ \A k \in (n + 1) .. Len(vec.out) : vec.out[k] = 0
           /\ n % A = 0 => vec.out = vec.data

(***************************************************************************)
(* C10  Resizable container encoding: a resizable container of n elements  *)
(* is serialized as the count n, a word-width unsigned integer, followed   *)
(* by the n elements in order, each by its own policy; deserializing into  *)
(* a target of any prior length resizes it to n and decodes every element, *)
(* so the target ends equal to the original.  A fixed-arity container is   *)
(* serialized as its elements in order, with no length prefix.             *)
(***************************************************************************)
\* the encodings of the elements of t, each serialized on its own, in order
RECURSIVE ElementBytes(_, _, _)
ElementBytes(order, T, t) ==
    IF t = <<>> THEN <<>>
    ELSE serialize(order, Integral(T, t[1])).bytes \o ElementBytes(order, T, Tail(t))

ContainerEncoding ==
    /\ (pc \in {"serialized", "decode", "failed"} /\ vec.kind = "vector")
       => ser.bytes = BytesInOrder(byteOrder, BitsOfNat(Len(vec.src)), WordBits \div 8)
                         \o ElementBytes(byteOrder, vec.T, vec.src)
    /\ (pc \in {"serialized", "decode", "failed"} /\ vec.kind = "array")
       => ser.bytes = ElementBytes(byteOrder, vec.T, vec.src)
    /\ (pc \in {"decode", "failed"} /\ vec.kind = "vector")
       => /\ vec.err = "none"
          /\ Len(vec.target) = Len(vec.src)
          /\ vec.target = vec.src

\* What the code does do (not a claim): the encoding is as C10 states for
\* every container, and the target ends equal to the original for every
\* element type but a signed word-width one decoded LsbFirst, which fails
\* by the sign mask of BytewiseDeserializer::impl alone (C2).
ContainerEncodingButSignedWord ==
    /\ (pc \in {"serialized", "decode", "failed"} /\ vec.kind = "vector")
       => ser.bytes = BytesInOrder(byteOrder, BitsOfNat(Len(vec.src)), WordBits \div 8)
                         \o ElementBytes(byteOrder, vec.T, vec.src)
    /\ (pc \in {"serialized", "decode", "failed"} /\ vec.kind = "array")
       => ser.bytes = ElementBytes(byteOrder, vec.T, vec.src)
    /\ (pc \in {"decode", "failed"} /\ vec.kind \in {"vector", "array"})
       => /\ vec.err = "none"
          /\ Len(vec.target) = Len(vec.src)
          /\ (vec.T # I64 \/ byteOrder = MsbFirst) => vec.target = vec.src

(***************************************************************************)
(* Policy<T>: the selection of a policy by partial specialization.  A type *)
(* is described by the traits the specializations test.                    *)
(***************************************************************************)
\* the levels of enum class Priority, in order
Priority == <<"First", "Primary", "Secondary", "Last">>
PriorityIndex(P) == CHOOSE i \in 1 .. Len(Priority) : Priority[i] = P

\* the traits of a type
has_serializer(T) == T.has_serializer
has_deserializer(T) == T.has_deserializer
is_integral(T) == T.kind = "integral"
is_enum(T) == T.kind = "enum"
is_class(T) == T.kind \in {"class", "Bits", "Spare"}
is_standard_layout(T) == T.is_standard_layout
is_resizable(T) == T.is_resizable
is_iterable(T) == T.is_iterable
member_count(T) == T.member_count
\* floating_width_equivalent<T>::type exists
floating_width_equivalent(T) == T.kind = "float" /\ T.bits \in {16, 32, 64}

\* The partial specializations of Policy: the level each is declared at and
\* the condition under which each matches.
Specializations ==
    { [name |-> "Default", P |-> "Primary"],
      [name |-> "SerializeOnly", P |-> "Primary"],
      [name |-> "DeserializeOnly", P |-> "Primary"],
      [name |-> "Integral", P |-> "Primary"],
      [name |-> "Enum", P |-> "Primary"],
      [name |-> "Float", P |-> "Primary"],
      [name |-> "Resizable", P |-> "Primary"],
      [name |-> "FixedArity", P |-> "Primary"],
      [name |-> "Bits", P |-> "Primary"],
      [name |-> "Spare", P |-> "Primary"],
      [name |-> "Member", P |-> "Secondary"],
      [name |-> "NoPolicy", P |-> "Last"] }

SpecializationMatches(name, T) ==
    CASE name = "Bits" -> T.kind = "Bits"
      [] name = "Spare" -> T.kind = "Spare"
      [] name = "Default" -> has_serializer(T) /\ has_deserializer(T)
      [] name = "SerializeOnly" -> has_serializer(T) /\ ~has_deserializer(T)
      [] name = "DeserializeOnly" -> ~has_serializer(T) /\ has_deserializer(T)
      [] name = "Integral" -> is_integral(T)
      [] name = "Enum" -> is_enum(T)
      [] name = "Float" -> floating_width_equivalent(T)
      [] name = "Resizable" -> is_resizable(T) /\ is_iterable(T)
      [] name = "FixedArity" -> ~is_resizable(T) /\ is_iterable(T)
      [] name = "Member" -> is_class(T) /\ is_standard_layout(T) /\ member_count(T) # 0
      [] name = "NoPolicy" -> TRUE

\* the specializations that match Policy<T, void, P>; of two that match,
\* neither is more specialized than the other
Matching(T, P) ==
    {sp.name : sp \in {x \in Specializations : x.P = P /\ SpecializationMatches(x.name, T)}}

\* The types Policy is instantiated with: integers, enumerations, floating
\* point types of 32, 64 and 128 bits, pointers, Bits and Spare, and classes
\* with every combination of member functions.
ScalarShape(kind, bits) ==
    [kind |-> kind, bits |-> bits, has_serializer |-> FALSE, has_deserializer |-> FALSE,
     is_resizable |-> FALSE, is_iterable |-> FALSE, is_standard_layout |-> TRUE,
     member_count |-> 0]
MaxMemberCount == 2
ClassShapes ==
    [kind : {"class"}, bits : {0}, has_serializer : BOOLEAN, has_deserializer : BOOLEAN,
     is_resizable : BOOLEAN, is_iterable : BOOLEAN, is_standard_layout : BOOLEAN,
     member_count : 0 .. MaxMemberCount]
TypeShapes ==
    {ScalarShape("integral", 32), ScalarShape("enum", 32), ScalarShape("pointer", 64),
     ScalarShape("float", 32), ScalarShape("float", 64), ScalarShape("float", 128),
     [ScalarShape("Bits", 8) EXCEPT !.member_count = 1],
     [ScalarShape("Spare", 8) EXCEPT !.member_count = 1]}
    \cup ClassShapes

InitPolicy ==
    /\ byteOrder = MsbFirst
    /\ ser = NewSerializer
    /\ des = NewDeserializer(0, 0)
    /\ buf = <<>>
    /\ pc = "instantiate"
    /\ log = <<>>
    /\ taken = <<>>
    /\ vec = <<>>
    /\ \E T \in TypeShapes :
          ty = [kind |-> "Policy", T |-> T, P |-> "First", policy |-> "none", err |-> "none"]

\* no specialization matches Policy<T, void, P>: the primary template, which
\* derives from Policy<T, void, P + 1>
PrimaryTemplate ==
    /\ pc = "instantiate"
    /\ Matching(ty.T, ty.P) = {}
    /\ ty' = [ty EXCEPT !.P = Priority[PriorityIndex(ty.P) + 1]]
    /\ UNCHANGED <<byteOrder, ser, des, buf, pc, log, taken, vec>>

\* exactly one specialization matches: it is the policy of T
SelectSpecialization ==
    /\ pc = "instantiate"
    /\ \E name \in Matching(ty.T, ty.P) :
          /\ Matching(ty.T, ty.P) = {name}
          /\ name # "NoPolicy"
          /\ ty' = [ty EXCEPT !.policy = name]
    /\ pc' = "selected"
    /\ UNCHANGED <<byteOrder, ser, des, buf, log, taken, vec>>

\* several specializations match and none is more specialized: the
\* instantiation is ambiguous and the program does not compile
AmbiguousSpecialization ==
    /\ pc = "instantiate"
    /\ Cardinality(Matching(ty.T, ty.P)) > 1
    /\ ty' = [ty EXCEPT !.err = "ambiguous"]
    /\ pc' = "ill-formed"
    /\ UNCHANGED <<byteOrder, ser, des, buf, log, taken, vec>>

\* Policy<T, void, Priority::Last>: static_assert, no policy exists
NoPolicyExists ==
    /\ pc = "instantiate"
    /\ Matching(ty.T, ty.P) = {"NoPolicy"}
    /\ ty' = [ty EXCEPT !.err = "no policy"]
    /\ pc' = "ill-formed"
    /\ UNCHANGED <<byteOrder, ser, des, buf, log, taken, vec>>

NextPolicy ==
    \/ PrimaryTemplate
    \/ SelectSpecialization
    \/ AmbiguousSpecialization
    \/ NoPolicyExists

SpecPolicy == InitPolicy /\ [][NextPolicy]_vars

\* C11.  Policy precedence, first match wins: for every type, described by
\* the rule conditions it satisfies, the resolver ends with exactly one
\* policy, the earliest rule the type satisfies in the order pass-through,
\* one direction only, integer, enumeration, float of 16/32/64 bits,
\* resizable iterable, fixed-arity iterable, standard-layout composite with
\* at least one field, and otherwise none; a type that satisfies several
\* rules never ends in an ambiguity.
RuleOrder ==
    <<"Default", "OneDirection", "Integral", "Enum", "Float", "Resizable",
      "FixedArity", "Member", "NoPolicy">>
RuleHolds(rule, T) ==
    CASE rule = "Default" -> T.has_serializer /\ T.has_deserializer
      [] rule = "OneDirection" -> T.has_serializer # T.has_deserializer
      [] rule = "Integral" -> T.kind = "integral"
      [] rule = "Enum" -> T.kind = "enum"
      [] rule = "Float" -> T.kind = "float" /\ T.bits \in {16, 32, 64}
      [] rule = "Resizable" -> T.is_iterable /\ T.is_resizable
      [] rule = "FixedArity" -> T.is_iterable /\ ~T.is_resizable
      [] rule = "Member" -> T.kind = "class" /\ T.is_standard_layout /\ T.member_count >= 1
      [] rule = "NoPolicy" -> TRUE
EarliestRule(T) ==
    RuleOrder[CHOOSE i \in 1 .. Len(RuleOrder) :
                 /\ RuleHolds(RuleOrder[i], T)
                 /\ \A j \in 1 .. i - 1 : ~RuleHolds(RuleOrder[j], T)]
RuleOfPolicy(name) ==
    IF name \in {"SerializeOnly", "DeserializeOnly"} THEN "OneDirection" ELSE name
FirstMatchWins ==
    (ty.kind = "Policy" /\ ty.T.kind \notin {"Bits", "Spare"}
        /\ pc \in {"selected", "ill-formed"})
    => IF EarliestRule(ty.T) = "NoPolicy"
       THEN pc = "ill-formed" /\ ty.err = "no policy"
       ELSE pc = "selected" /\ RuleOfPolicy(ty.policy) = EarliestRule(ty.T)

\* What the code does do (not a claim): the first match wins for every type
\* that satisfies at most one of the rules declared at Priority::Primary.
FirstMatchWinsButPrimaryOverlap ==
    (ty.kind = "Policy" /\ ty.T.kind \notin {"Bits", "Spare"}
        /\ pc \in {"selected", "ill-formed"}
        /\ Cardinality(Matching(ty.T, "Primary")) <= 1)
    => IF EarliestRule(ty.T) = "NoPolicy"
       THEN pc = "ill-formed" /\ ty.err = "no policy"
       ELSE pc = "selected" /\ RuleOfPolicy(ty.policy) = EarliestRule(ty.T)

(***************************************************************************)
(* Direct calls: give<T>(data, bits) on a DynamicSerializer and            *)
(* take<T>(bits) on a BufferDeserializer, with any type and width; the     *)
(* caller catches what a call throws and goes on.                          *)
(***************************************************************************)
MaxCalls == 3
\* an integer type wider than size_t
U128 == IntType(128, FALSE)
\* the types and widths of the calls, and the value given
CallTypes == {U8, U16, U128}
CallWidths(T) ==
    IF T = U8 THEN {0, 3, 8, 9}
    ELSE IF T = U16 THEN {0, 9, 16, 17}
    ELSE {8}
CallData == BitsOfNat(42405)

\* ser.give<T>(CallData, bits)
Give ==
    /\ pc = "encode"
    /\ Len(log) + Len(taken) < MaxCalls
    /\ \E T \in CallTypes : \E bits \in CallWidths(T) :
         \E r \in {give(byteOrder, ser, T, CallData, bits)} :
            /\ ser' = r.s
            /\ log' = Append(log, [op |-> "give", T |-> T, bits |-> bits,
                                   pre |-> ser, post |-> r.s, err |-> r.err])
    /\ UNCHANGED <<byteOrder, des, buf, pc, taken, vec, ty>>

\* ser.flush() between the calls of give
FlushCall ==
    /\ pc = "encode"
    /\ Len(log) + Len(taken) < MaxCalls
    /\ \E s1 \in {flush(ser)} :
            /\ ser' = s1
            /\ log' = Append(log, [op |-> "flush", T |-> U8, bits |-> 0,
                                   pre |-> ser, post |-> s1, err |-> "none"])
    /\ UNCHANGED <<byteOrder, des, buf, pc, taken, vec, ty>>

\* BufferDeserializer des(pData, size, byteOrder) over the first size bytes
\* produced
NewBufferDeserializer ==
    /\ pc = "encode"
    /\ \E size \in 0 .. Len(ser.bytes), b \in IndeterminateBytes :
        /\ buf' = SubSeq(ser.bytes, 1, size)
        /\ des' = NewDeserializer(size, b)
    /\ pc' = "decode"
    /\ UNCHANGED <<byteOrder, ser, log, taken, vec, ty>>

\* des.take<T>(bits); unread is what the input still held before the call,
\* less the bits of the takes that returned
Take ==
    /\ pc = "decode"
    /\ Len(log) + Len(taken) < MaxCalls
    /\ \E T \in CallTypes : \E bits \in CallWidths(T) :
         \E r \in {take(byteOrder, des, buf, T, bits)} :
            /\ des' = r.d
            /\ taken' = Append(taken, [T |-> T, bits |-> bits, pre |-> des,
                                       post |-> r.d, value |-> r.value,
                                       err |-> r.err])
    /\ UNCHANGED <<byteOrder, ser, buf, pc, log, vec, ty>>

NextCalls == Give \/ FlushCall \/ NewBufferDeserializer \/ Take

SpecCalls == Init /\ [][NextCalls]_vars

\* C12.  Invalid bit-width requests are rejected before any bit is
\* transferred: give and take with a width of 0, a width above the bit width
\* of T, or a T wider than the platform word fail with invalid_argument and
\* leave the serializer (byte_, bitsSet_, bytes) or the deserializer (byte_,
\* bitsLeft_, cursor, size_) as it was; every width from 1 to the bit width
\* of T is accepted and transfers that many bits, never fewer.
InvalidWidth(T, bits) == bits = 0 \/ bits > bitsize(T) \/ bitsize(T) > WordBits
BitsHeld(s) == ByteBits * Len(s.bytes) + s.bitsSet_
InvalidWidthRejected ==
    /\ \A i \in 1 .. Len(log) :
          log[i].op = "give" =>
             IF InvalidWidth(log[i].T, log[i].bits)
             THEN log[i].err = "invalid_argument" /\ log[i].post = log[i].pre
             ELSE /\ log[i].err = "none"
                  /\ BitsHeld(log[i].post) = BitsHeld(log[i].pre) + log[i].bits
    /\ \A i \in 1 .. Len(taken) :
          ("bits" \in DOMAIN taken[i]) =>
             IF InvalidWidth(taken[i].T, taken[i].bits)
             THEN taken[i].err = "invalid_argument" /\ taken[i].post = taken[i].pre
             ELSE taken[i].err # "invalid_argument"

\* give has transferred bits that are still pending, and take has refused a
\* width above that of T on a deserializer in the middle of a byte
InvalidWidthRejectedWitness ==
    /\ pc = "decode"
    /\ \E i \in 1 .. Len(log) :
          /\ log[i].op = "give" /\ log[i].err = "none" /\ log[i].post.bitsSet_ # 0
    /\ \E i \in 1 .. Len(taken) :
          /\ taken[i].err = "invalid_argument"
          /\ taken[i].bits > bitsize(taken[i].T)
          /\ taken[i].pre.bitsLeft_ # 0

\* C15.  Pulling past the end fails in every reachable state: after any
\* sequence of take calls on a BufferDeserializer, those that failed with
\* out_of_range included, a take of w bits when fewer than w unread bits
\* remain in the input fails with out_of_range and returns no value; a
\* failed take does not make a later over-read succeed.
RECURSIVE BitsReturned(_, _)
BitsReturned(ts, n) ==
    IF n = 0 THEN 0
    ELSE BitsReturned(ts, n - 1) + (IF ts[n].err = "none" THEN ts[n].bits ELSE 0)
\* the most the input can still hold before call i: what it held, less the
\* bits of the takes that returned
UnreadBefore(i) == ByteBits * Len(buf) - BitsReturned(taken, i - 1)
OverReadFails ==
    \A i \in 1 .. Len(taken) :
       (/\ "bits" \in DOMAIN taken[i]
        /\ ~InvalidWidth(taken[i].T, taken[i].bits)
        /\ taken[i].bits > UnreadBefore(i))
       => taken[i].err = "out_of_range"

\* What the code does do (not a claim): an over-read fails as long as no
\* earlier take has failed with out_of_range.
OverReadFailsOnce ==
    \A i \in 1 .. Len(taken) :
       (/\ "bits" \in DOMAIN taken[i]
        /\ ~InvalidWidth(taken[i].T, taken[i].bits)
        /\ taken[i].bits > UnreadBefore(i)
        /\ \A j \in 1 .. i - 1 : taken[j].err # "out_of_range")
       => taken[i].err = "out_of_range"

\* bit k of the stream that the fields fs make up
StreamBitOfFields(order, fs, k) ==
    LET i == CHOOSE x \in 1 .. Len(fs) :
                StartOf(fs, x) <= k /\ k < StartOf(fs, x) + fs[x].f.width
    IN  FieldBit(order, fs[i].f.value, fs[i].f.width, k - StartOf(fs, i))

\* C16.  Layout of the final partial byte: when the bits written are not a
\* multiple of 8 and r = total mod 8 bits are pending, flush emits a byte in
\* which those r bits lie where they would lie in a completed byte (the top
\* r positions, first-written bit at bit 7, under MsbFirst; the low r
\* positions, first-written bit at bit 0, under LsbFirst) and the other
\* 8 - r positions are 0; the 4 bits 1111 written MsbFirst and flushed give
\* the byte 0xF0.
PartialByteLayout ==
    LET fs == PutFields(log)
        total == TotalBits(log)
    IN  /\ (pc = "encode" /\ PutsThenFlush(log) /\ total % 8 # 0)
           => /\ Len(ser.bytes) = (total \div 8) + 1
              /\ \A i \in 1 .. Len(fs) : \A j \in 0 .. (fs[i].f.width - 1) :
                    StreamBit(byteOrder, ser.bytes, StartOf(fs, i) + j)
                       = FieldBit(byteOrder, fs[i].f.value, fs[i].f.width, j)
              /\ \A k \in total .. (8 * Len(ser.bytes) - 1) :
                    StreamBit(byteOrder, ser.bytes, k) = 0
        /\ (/\ byteOrder = MsbFirst
            /\ Len(log) = 2
            /\ log[1].f = Bits(U8, 4, BitsOfNat(15))
            /\ log[2].op = "flush")
           => ser.bytes = <<240>>

\* What the code does do (not a claim): flush emits the accumulator as the
\* last turn of the loop left it: under MsbFirst the r pending bits lie at
\* positions r down to 1 (first-written bit at position r), under LsbFirst
\* at positions 7 - r up to 6 (first-written bit at position 7 - r).
PartialByteAsLeft ==
    \A i \in 1 .. Len(log) :
       (log[i].op = "flush" /\ log[i].pre.bitsSet_ # 0)
       => /\ log[i].post.bytes = Append(log[i].pre.bytes, log[i].pre.byte_)
          /\ LET r == log[i].pre.bitsSet_
                 k0 == 8 * Len(log[i].pre.bytes)
                 fsi == PutFields(SubSeq(log, 1, i - 1))
             IN  (TotalBits(SubSeq(log, 1, i - 1)) = k0 + r /\ NoFlush(SubSeq(log, 1, i - 1)))
                 => \A p \in 0 .. 7 :
                       (IF ByteTest(log[i].pre.byte_, Pow2(p)) THEN 1 ELSE 0)
                          = IF byteOrder = MsbFirst
                            THEN (IF p \in 1 .. r
                                  THEN StreamBitOfFields(byteOrder, fsi, k0 + r - p)
                                  ELSE 0)
                            ELSE (IF p \in (7 - r) .. 6
                                  THEN StreamBitOfFields(byteOrder, fsi, k0 + p - (7 - r))
                                  ELSE 0)

(***************************************************************************)
(* member_pack, member_count and member_offsets of a class T.  T is given  *)
(* by its non-static data members in declaration order, each with sizeof   *)
(* and alignof, and by is_class and is_standard_layout.                    *)
(***************************************************************************)
MaxFields == 30
MaxMembers == 3

\* sizeof and alignof of the member types: uint8_t (bool, char), uint16_t,
\* uint32_t (int), uint64_t
MemberType(size, align) == [size |-> size, align |-> align]
MemberTypes == {MemberType(1, 1), MemberType(2, 2), MemberType(4, 4), MemberType(8, 8)}

\* T{std::declval<Ts>()...} with k placeholders is well-formed: an aggregate
\* of scalar members takes at most as many initializers as it has members
is_initializable(T, k) == k <= Len(T.fields)
is_empty(T) == T.is_class /\ T.fields = <<>>

\* the conditions of the partial specializations of member_pack_impl, k
\* being the number of types T0, Ts... in the pack
\* member_pack_impl<T, Atom, void>: one placeholder to start with
PackStarts(T, k) ==
    k = 0 /\ ~is_empty(T) /\ T.is_standard_layout /\ T.is_class
\* the pack twice over initializes T
PackDoubles(T, k) == k >= 1 /\ is_initializable(T, 2 * k)
\* one placeholder more initializes T, the pack twice over does not
PackGrows(T, k) ==
    /\ k >= 1
    /\ is_initializable(T, k)
    /\ is_initializable(T, k + 1)
    /\ ~is_initializable(T, 2 * k)
\* the end of the probing without the test of one placeholder more
PackCompleteUnprobed(T, k) ==
    k >= 1 /\ is_initializable(T, k) /\ ~is_initializable(T, 2 * k)
\* the pack initializes T, one placeholder more does not
PackComplete(T, k) ==
    k >= 1 /\ is_initializable(T, k) /\ ~is_initializable(T, k + 1)

\* atom_offset_binder::operator T() without the rounding up of base
AlignUpNot(base, align) == base
\* (base + alignof(T) - 1) / alignof(T) * alignof(T)
AlignUp(base, align) == ((base + align - 1) \div align) * align

\* The classes: every list of up to MaxMembers members, and the classes of
\* 0 to MaxFields members of type int; types that are not classes or not of
\* standard layout as well.
IntMembers(n) == [i \in 1 .. n |-> MemberType(4, 4)]
MemberLists ==
    BoundedSeq(MemberTypes, MaxMembers) \cup {IntMembers(n) : n \in 0 .. MaxFields}
ClassTypes ==
    [fields : MemberLists, is_class : {TRUE}, is_standard_layout : BOOLEAN]
    \cup {[fields |-> <<>>, is_class |-> FALSE, is_standard_layout |-> TRUE]}

InitMembers ==
    /\ byteOrder = MsbFirst
    /\ ser = NewSerializer
    /\ des = NewDeserializer(0, 0)
    /\ buf = <<>>
    /\ pc = "member_pack"
    /\ log = <<>>
    /\ taken = <<>>
    /\ vec = <<>>
    /\ \E T \in ClassTypes :
          ty = [kind |-> "member_pack", T |-> T, k |-> 0, steps |-> 0,
                count |-> 0, base |-> 0, offsets |-> <<>>]

\* the primary template of member_pack_impl: no specialization matches, the
\* pack is pack<> and member_count is 0
PackPrimary ==
    /\ pc = "member_pack"
    /\ ~PackStarts(ty.T, ty.k)
    /\ ~PackDoubles(ty.T, ty.k)
    /\ ~PackGrows(ty.T, ty.k)
    /\ ~PackComplete(ty.T, ty.k)
    /\ ty' = [ty EXCEPT !.count = 0]
    /\ pc' = "member_count"
    /\ UNCHANGED <<byteOrder, ser, des, buf, log, taken, vec>>

\* member_pack_impl<T, Atom, void> derives from
\* member_pack_impl<T, Atom, void, Atom>
PackStart ==
    /\ pc = "member_pack"
    /\ PackStarts(ty.T, ty.k)
    /\ ty' = [ty EXCEPT !.k = 1, !.steps = @ + 1]
    /\ UNCHANGED <<byteOrder, ser, des, buf, pc, log, taken, vec>>

\* ... derives from member_pack_impl<T, Atom, void, T0, Ts..., T0, Ts...>
PackDouble ==
    /\ pc = "member_pack"
    /\ PackDoubles(ty.T, ty.k)
    /\ ty' = [ty EXCEPT !.k = 2 * @, !.steps = @ + 1]
    /\ UNCHANGED <<byteOrder, ser, des, buf, pc, log, taken, vec>>

\* ... derives from member_pack_impl<T, Atom, void, Atom, T0, Ts...>
PackGrow ==
    /\ pc = "member_pack"
    /\ PackGrows(ty.T, ty.k)
    /\ ty' = [ty EXCEPT !.k = @ + 1, !.steps = @ + 1]
    /\ UNCHANGED <<byteOrder, ser, des, buf, pc, log, taken, vec>>

\* type = pack<T0, Ts...>; member_count is sizeof...(Ts) of that pack
PackDone ==
    /\ pc = "member_pack"
    /\ PackComplete(ty.T, ty.k)
    /\ ty' = [ty EXCEPT !.count = ty.k]
    /\ pc' = "member_count"
    /\ UNCHANGED <<byteOrder, ser, des, buf, log, taken, vec>>

\* member_offsets_impl<T>(make_sequence<member_count<T>::value>{}): base = 0
\* and an array of member_count offsets
MemberOffsetsImpl ==
    /\ pc = "member_count"
    /\ ty' = [ty EXCEPT !.base = 0, !.offsets = <<>>]
    /\ pc' = "member_offsets"
    /\ UNCHANGED <<byteOrder, ser, des, buf, log, taken, vec>>

\* the conversion of the next atom_offset_binder of T{...} to the type of
\* the member it initializes, in the order of the initializer list
BindOffset ==
    /\ pc = "member_offsets"
    /\ Len(ty.offsets) < ty.count
    /\ LET m == ty.T.fields[Len(ty.offsets) + 1]
           base1 == AlignUp(ty.base, m.align)
       IN  ty' = [ty EXCEPT !.offsets = Append(@, base1), !.base = base1 + m.size]
    /\ UNCHANGED <<byteOrder, ser, des, buf, pc, log, taken, vec>>

NextMembers ==
    \/ PackPrimary
    \/ PackStart
    \/ PackDouble
    \/ PackGrow
    \/ PackDone
    \/ MemberOffsetsImpl
    \/ BindOffset

\* the instantiation of a template goes on until it ends
SpecMembers == InitMembers /\ [][NextMembers]_vars /\ WF_vars(NextMembers)

\* C13.  Field-count discovery is exact and terminates: for a composite that
\* is initialized from k placeholders exactly when k <= N, N >= 1, the
\* probing that starts at 1 placeholder, doubles while the doubled count
\* initializes and otherwise adds one while one more initializes, stops
\* after finitely many steps (at most N, as every step adds at least one
\* placeholder) and reports exactly N, 3 for three fields and 30 for thirty;
\* a composite with no fields reports 0.
Composite(T) == T.is_class /\ T.is_standard_layout
MemberCountExact ==
    /\ [](ty.kind = "member_pack" /\ Composite(ty.T)
            => /\ ty.steps <= Len(ty.T.fields)
               /\ ty.k <= Len(ty.T.fields)
               /\ pc # "member_pack" => ty.count = Len(ty.T.fields))
    /\ <>(pc # "member_pack")

\* the probing has ended with 30 for a class of thirty members, by steps of
\* both kinds
MemberCountExactWitness ==
    /\ ty.kind = "member_pack"
    /\ Composite(ty.T)
    /\ Len(ty.T.fields) = MaxFields
    /\ pc = "member_count"
    /\ ty.count = MaxFields
    /\ ty.steps > 5

\* C14.  Field offsets follow natural layout: member_offsets has one offset
\* per field; offset i is the running byte cursor (0 at first, then offset
\* plus size of the field before) rounded up to a multiple of the alignment
\* of field i, so every offset is a multiple of its field's alignment and
\* offset i + 1 >= offset i + size i; fields (uint32, bool, char) give
\* {0, 4, 5}.
CursorAt(T, offsets, i) == IF i = 1 THEN 0 ELSE offsets[i - 1] + T.fields[i - 1].size
NaturalLayout ==
    (ty.kind = "member_pack" /\ Composite(ty.T) /\ pc = "member_offsets")
    => /\ Len(ty.offsets) <= Len(ty.T.fields)
       /\ \A i \in 1 .. Len(ty.offsets) :
             /\ ty.offsets[i] % ty.T.fields[i].align = 0
             /\ ty.offsets[i] >= CursorAt(ty.T, ty.offsets, i)
             /\ ty.offsets[i] - CursorAt(ty.T, ty.offsets, i) < ty.T.fields[i].align
             /\ i > 1 => ty.offsets[i] >= ty.offsets[i - 1] + ty.T.fields[i - 1].size
       /\ ~ENABLED BindOffset => Len(ty.offsets) = Len(ty.T.fields)
       /\ (/\ ty.T.fields = <<MemberType(4, 4), MemberType(1, 1), MemberType(1, 1)>>
           /\ Len(ty.offsets) = 3)
          => ty.offsets = <<0, 4, 5>>

\* the offsets of (uint32, bool, char) are {0, 4, 5}
NaturalLayoutWitness ==
    /\ ty.kind = "member_pack"
    /\ Composite(ty.T)
    /\ pc = "member_offsets"
    /\ ty.T.fields = <<MemberType(4, 4), MemberType(1, 1), MemberType(1, 1)>>
    /\ ty.offsets = <<0, 4, 5>>

\* an offset was rounded up past the cursor: (uint8, uint64) gives {0, 8}
NaturalLayoutPadded ==
    /\ pc = "member_offsets"
    /\ ty.kind = "member_pack"
    /\ ty.T.fields = <<MemberType(1, 1), MemberType(8, 8)>>
    /\ ty.offsets = <<0, 8>>

====
